---- MODULE Spec2Model ----
(***************************************************************************)
(* The storage layer of the prompt manager (src/src/lib/storage.ts):       *)
(* chunkPrompt / reconstructPrompt, getPrompts, savePrompts with its quota *)
(* fallback, searchPrompts, importPromptsFromJson and syncWithNotion, over *)
(* the two chrome.storage areas, with getAllTags and                       *)
(* initializeDefaultTags.                                                  *)
(*                                                                         *)
(* JavaScript values are held as follows.                                  *)
(*   string     a run-length list of UTF-16 code units, <<[c, n], ...>>,   *)
(*              in canonical form: no empty run, no two adjacent runs of   *)
(*              the same unit.  Equal strings have equal lists.            *)
(*   property   <<v>> when the property holds the value v, <<>> when it is *)
(*              undefined.  An object is a function from its own keys to   *)
(*              properties; reading a key it does not own gives <<>>.      *)
(*   null       <<>>                                                       *)
(***************************************************************************)
EXTENDS Integers, Sequences, FiniteSets, TLC

VARIABLES sync, local, op, other, nops, ck

vars == <<sync, local, op, other, nops, ck>>

(***************************************************************************)
(* Bounds of the model.                                                    *)
(***************************************************************************)
\* Top-level operations started in one behaviour.
MaxOps == 2
\* Records in the list handed to a direct savePrompts call.
MaxList == 2
\* Content lengths explored on each side of a boundary length.
MaxDelta == 1

(***************************************************************************)
(* Strings.                                                                *)
(***************************************************************************)
Rep(c, n) == IF n <= 0 THEN <<>> ELSE <<[c |-> c, n |-> n]>>

\* a + b
Concat(a, b) ==
    IF a = <<>> THEN b
    ELSE IF b = <<>> THEN a
    ELSE IF a[Len(a)].c = b[1].c
         THEN SubSeq(a, 1, Len(a) - 1)
              \o <<[c |-> b[1].c, n |-> a[Len(a)].n + b[1].n]>>
              \o Tail(b)
         ELSE a \o b

RECURSIVE FromCodes(_)
\* The string with the given code units.
FromCodes(codes) ==
    IF codes = <<>> THEN <<>>
    ELSE IF Len(codes) = 1 THEN Rep(codes[1], 1)
    ELSE Concat(FromCodes(SubSeq(codes, 1, Len(codes) \div 2)),
                FromCodes(SubSeq(codes, Len(codes) \div 2 + 1, Len(codes))))

RECURSIVE StrLen(_)
\* s.length
StrLen(s) == IF s = <<>> THEN 0 ELSE s[1].n + StrLen(Tail(s))

RECURSIVE Take(_, _)
\* The first k code units of s (all of s when it is shorter).
Take(s, k) ==
    IF k <= 0 \/ s = <<>> THEN <<>>
    ELSE IF s[1].n <= k THEN <<s[1]>> \o Take(Tail(s), k - s[1].n)
    ELSE <<[c |-> s[1].c, n |-> k]>>

RECURSIVE Drop(_, _)
\* s without its first k code units.
Drop(s, k) ==
    IF k <= 0 \/ s = <<>> THEN s
    ELSE IF s[1].n <= k THEN Drop(Tail(s), k - s[1].n)
    ELSE <<[c |-> s[1].c, n |-> s[1].n - k]>> \o Tail(s)

\* s.slice(from, to) for 0 <= from <= to
Slice(s, from, to) == Drop(Take(s, to), from)

RECURSIVE Join(_)
\* parts.join('')
Join(parts) ==
    IF parts = <<>> THEN <<>> ELSE Concat(parts[1], Join(Tail(parts)))

\* The lower-case form of a code unit: the ASCII and Latin-1 capitals have
\* one 32 above them; the other units that occur here (the euro sign, the
\* surrogates, digits and punctuation) are their own.
ToLowerUnit(c) ==
    IF c \in 65..90 \/ (c \in 192..222 /\ c # 215) THEN c + 32 ELSE c

RECURSIVE toLowerCase(_)
\* s.toLowerCase()
toLowerCase(s) ==
    IF s = <<>> THEN <<>>
    ELSE IF Len(s) = 1 THEN Rep(ToLowerUnit(s[1].c), s[1].n)
    ELSE Concat(toLowerCase(SubSeq(s, 1, Len(s) \div 2)),
                toLowerCase(SubSeq(s, Len(s) \div 2 + 1, Len(s))))

\* The white space and line terminators that trim() removes.
IsSpace(c) ==
    c \in {9, 10, 11, 12, 13, 32, 160, 5760, 8232, 8233, 8239, 8287, 12288, 65279}
        \cup 8192..8202

RECURSIVE TrimStart(_)
TrimStart(s) ==
    IF s # <<>> /\ IsSpace(s[1].c) THEN TrimStart(Tail(s)) ELSE s

RECURSIVE TrimEnd(_)
TrimEnd(s) ==
    IF s # <<>> /\ IsSpace(s[Len(s)].c)
    THEN TrimEnd(SubSeq(s, 1, Len(s) - 1)) ELSE s

\* s.trim()
trim(s) == TrimEnd(TrimStart(s))

\* s.includes(q): q lies in s when its first run ends a run of s, its last
\* run starts one, and the runs between are runs of s.
includes(s, q) ==
    IF q = <<>> THEN TRUE
    ELSE IF Len(q) = 1
    THEN \E i \in 1..Len(s) : s[i].c = q[1].c /\ s[i].n >= q[1].n
    ELSE \E i \in 1..(Len(s) - Len(q) + 1) :
            /\ s[i].c = q[1].c /\ s[i].n >= q[1].n
            /\ \A j \in 2..(Len(q) - 1) : s[i + j - 1] = q[j]
            /\ s[i + Len(q) - 1].c = q[Len(q)].c
            /\ s[i + Len(q) - 1].n >= q[Len(q)].n

(***************************************************************************)
(* Objects.                                                                *)
(***************************************************************************)
Undefined == <<>>

Null == <<>>

Def(v) == <<v>>

\* o[k]
Get(o, k) == IF k \in DOMAIN o THEN o[k] ELSE Undefined

Has(o, k) == Get(o, k) # Undefined

Val(o, k) == o[k][1]

\* { ...o, ...upd }
Spread(o, upd) ==
    [k \in (DOMAIN o) \cup (DOMAIN upd) |->
        IF k \in DOMAIN upd THEN upd[k] ELSE o[k]]

\* What a storage area keeps of an object: JSON has no undefined, so a key
\* whose value is undefined is not stored.
Stored(o) == [k \in {j \in DOMAIN o : o[j] # Undefined} |-> o[k]]

(***************************************************************************)
(* new Blob([JSON.stringify(prompt)]).size                                 *)
(***************************************************************************)
IsHigh(c) == c >= 55296 /\ c <= 56319

IsLow(c) == c >= 56320 /\ c <= 57343

\* Bytes of one code unit inside a JSON string, UTF-8 encoded.
UnitBytes(c) ==
    IF c \in {34, 92} THEN 2
    ELSE IF c \in {8, 9, 10, 12, 13} THEN 2
    ELSE IF c < 32 THEN 6
    ELSE IF c < 128 THEN 1
    ELSE IF c < 2048 THEN 2
    ELSE 3

\* Bytes of run k of s.  A high surrogate followed by a low one is one code
\* point of 4 bytes; a surrogate on its own is written \uXXXX.
RunBytes(s, k) ==
    IF IsHigh(s[k].c)
    THEN (s[k].n - 1) * 6 + (IF k < Len(s) /\ IsLow(s[k + 1].c) THEN 2 ELSE 6)
    ELSE IF IsLow(s[k].c)
    THEN (s[k].n - 1) * 6 + (IF k > 1 /\ IsHigh(s[k - 1].c) THEN 2 ELSE 6)
    ELSE s[k].n * UnitBytes(s[k].c)

RECURSIVE RunsBytes(_, _)
RunsBytes(s, k) == IF k > Len(s) THEN 0 ELSE RunBytes(s, k) + RunsBytes(s, k + 1)

\* JSON.stringify(s) of a string, in bytes.
StrBytes(s) == 2 + RunsBytes(s, 1)

RECURSIVE Digits(_)
\* String(n).length of an integer n >= 0
Digits(n) == IF n < 10 THEN 1 ELSE 1 + Digits(n \div 10)

RECURSIVE TwoPower(_)
\* The number of times 2 divides r > 0.
TwoPower(r) == IF r % 2 = 1 THEN 0 ELSE 1 + TwoPower(r \div 2)

\* String(bytes / 1024).length: the value is exact in decimal, with as many
\* fraction digits as the reduced denominator has factors of two.
KbDigits(kb) ==
    Digits(kb.num \div kb.den)
    + (IF kb.num % kb.den = 0 THEN 0 ELSE 1 + (10 - TwoPower(kb.num % kb.den)))

RECURSIVE ArrayBytes(_)
ArrayBytes(a) ==
    IF a = <<>> THEN 0
    ELSE StrBytes(a[1]) + (IF Len(a) > 1 THEN 1 ELSE 0) + ArrayBytes(Tail(a))

ValueBytes(k, v) ==
    IF k \in {"id", "title", "content"} THEN StrBytes(v)
    ELSE IF k = "tags" THEN 2 + ArrayBytes(v)
    ELSE IF k = "originalSize" THEN KbDigits(v)
    ELSE Digits(v)

PromptKeys ==
    <<"id", "title", "content", "tags", "createdAt", "updatedAt",
      "chunkCount", "originalSize">>

RECURSIVE MembersBytes(_, _)
\* "key":value for every defined key from the i-th on, each with one comma.
MembersBytes(o, i) ==
    IF i > Len(PromptKeys) THEN 0
    ELSE (IF Has(o, PromptKeys[i])
          THEN Len(PromptKeys[i]) + 4 + ValueBytes(PromptKeys[i], Val(o, PromptKeys[i]))
          ELSE 0)
         + MembersBytes(o, i + 1)

\* new Blob([JSON.stringify(prompt)]).size
BlobSize(prompt) ==
    IF MembersBytes(prompt, 1) = 0 THEN 2 ELSE 1 + MembersBytes(prompt, 1)

(***************************************************************************)
(* Chunking.                                                               *)
(***************************************************************************)
MAX_PROMPT_SIZE_KB == 7

CHUNK_SIZE_CHARS == 3000

\* bytes / 1024
SizeKB(bytes) == [num |-> bytes, den |-> 1024]

\* The comparison with the boundary value on the wrong side.
ExceedsLimit_Inclusive(kb) == kb.num >= MAX_PROMPT_SIZE_KB * kb.den

\* kb > MAX_PROMPT_SIZE_KB
ExceedsLimit(kb) == kb.num > MAX_PROMPT_SIZE_KB * kb.den

RECURSIVE ChunkLoop_Short(_, _)
\* The loop with each slice one code unit short.
ChunkLoop_Short(content, i) ==
    IF i < StrLen(content)
    THEN <<Slice(content, i, i + CHUNK_SIZE_CHARS - 1)>>
         \o ChunkLoop_Short(content, i + CHUNK_SIZE_CHARS)
    ELSE <<>>

RECURSIVE ChunkLoop_Inclusive(_, _)
\* The loop with i <= content.length as its test.
ChunkLoop_Inclusive(content, i) ==
    IF i <= StrLen(content)
    THEN <<Slice(content, i, i + CHUNK_SIZE_CHARS)>>
         \o ChunkLoop_Inclusive(content, i + CHUNK_SIZE_CHARS)
    ELSE <<>>

RECURSIVE ChunkLoop(_, _)
\* for (let i = 0; i < content.length; i += CHUNK_SIZE_CHARS) chunks.push(...)
ChunkLoop(content, i) ==
    IF i < StrLen(content)
    THEN <<Slice(content, i, i + CHUNK_SIZE_CHARS)>>
         \o ChunkLoop(content, i + CHUNK_SIZE_CHARS)
    ELSE <<>>

chunkPrompt(prompt) ==
    LET promptSizeKB == SizeKB(BlobSize(prompt))
        chunks == ChunkLoop(Val(prompt, "content"), 0)
    IN  IF ~ExceedsLimit(promptSizeKB)
        THEN [metadata |-> Null, chunks |-> <<>>]
        ELSE [metadata |->
                Spread(prompt, [content |-> Undefined,
                                chunkCount |-> Def(Len(chunks)),
                                originalSize |-> Def(promptSizeKB)]),
              chunks |-> chunks]

\* The reconstruction without the two overrides that clear the internal keys.
reconstructPrompt_KeepInternal(metadata, chunks) ==
    Spread(IF metadata = Null THEN <<>> ELSE metadata,
           [content |-> Def(Join(chunks))])

reconstructPrompt(metadata, chunks) ==
    Spread(IF metadata = Null THEN <<>> ELSE metadata,
           [content |-> Def(Join(chunks)),
            chunkCount |-> Undefined,
            originalSize |-> Undefined])

(***************************************************************************)
(* Prompt records used as inputs.                                          *)
(***************************************************************************)
MkPrompt(id, title, content) ==
    [id |-> Def(id), title |-> Def(title), content |-> Def(content),
     createdAt |-> Def(1000), updatedAt |-> Def(2000)]

\* "p1", "p2", "p3"
IdA == FromCodes(<<112, 49>>)

IdB == FromCodes(<<112, 50>>)

IdC == FromCodes(<<112, 51>>)

\* "Note"
TitleT == FromCodes(<<78, 111, 116, 101>>)

\* "ai", "Writing"
TagAi == FromCodes(<<97, 105>>)

TagWriting == FromCodes(<<87, 114, 105, 116, 105, 110, 103>>)

\* n code units of content: "ascii" is a's then b's; "wide" is 3-byte then
\* 2-byte units; "emoji" is a's, one surrogate pair placed across the first
\* chunk boundary when the content is long enough, then 3-byte units.
Content(kind, n) ==
    IF kind = "ascii"
    THEN Concat(Rep(97, n \div 2), Rep(98, n - n \div 2))
    ELSE IF kind = "wide"
    THEN Concat(Rep(8364, n \div 2), Rep(233, n - n \div 2))
    ELSE IF n < 2 THEN Rep(97, n)
    ELSE LET k == IF n > CHUNK_SIZE_CHARS THEN CHUNK_SIZE_CHARS - 1 ELSE n - 2
         IN  Concat(Rep(97, k),
                    Concat(FromCodes(<<55357, 56613>>), Rep(8364, n - k - 2)))

\* The ASCII content length that puts MkPrompt(id, title, _) exactly at the
\* chunking threshold.
FitLen(id, title) ==
    MAX_PROMPT_SIZE_KB * 1024 - BlobSize(MkPrompt(id, title, <<>>))

(***************************************************************************)
(* chunkPrompt and reconstructPrompt on their own: chunk a record, then    *)
(* rebuild it from the metadata and the chunks (test-chunking.js).         *)
(***************************************************************************)
ChunkLens ==
    {b + d : b \in {0, CHUNK_SIZE_CHARS, 2 * CHUNK_SIZE_CHARS,
                    3 * CHUNK_SIZE_CHARS, FitLen(IdA, TitleT)},
             d \in (0 - MaxDelta)..MaxDelta} \cap Nat

ChunkInputs ==
    {MkPrompt(IdA, TitleT, Content(kind, n)) :
        kind \in {"ascii", "wide", "emoji"}, n \in ChunkLens}
    \cup {MkPrompt(IdA, Rep(97, FitLen(IdA, <<>>) + d), <<>>) : d \in 0..MaxDelta}
    \cup {Spread(MkPrompt(IdB, TitleT, Content("wide", n)),
                 [tags |-> Def(<<TagAi, TagWriting>>)]) :
            n \in {CHUNK_SIZE_CHARS + d : d \in 0..MaxDelta}}
    \cup {Spread(MkPrompt(IdC, TitleT, Content("wide", n)),
                 [chunkCount |-> Def(5), originalSize |-> Def(SizeKB(7500))]) :
            n \in {CHUNK_SIZE_CHARS + d : d \in 0..MaxDelta}}

CkIdle ==
    [pc |-> "idle", prompt |-> Null, metadata |-> Null, chunks |-> <<>>,
     rebuilt |-> Null]

\* const { metadata, chunks } = chunkPrompt(largePrompt)
DoChunk ==
    /\ ck.pc = "input"
    /\ ck' = [ck EXCEPT !.pc = "chunked",
                        !.metadata = chunkPrompt(ck.prompt).metadata,
                        !.chunks = chunkPrompt(ck.prompt).chunks]
    /\ UNCHANGED <<sync, local, op, other, nops>>

\* if (metadata && chunks.length > 0) reconstructed = reconstructPrompt(...)
DoReconstruct ==
    /\ ck.pc = "chunked"
    /\ ck.metadata # Null
    /\ ck' = [ck EXCEPT !.pc = "rebuilt",
                        !.rebuilt = reconstructPrompt(ck.metadata, ck.chunks)]
    /\ UNCHANGED <<sync, local, op, other, nops>>

(***************************************************************************)
(* chrome.storage areas.  An area is an object from storage keys to the    *)
(* values stored under them; set() replaces the keys it is given and       *)
(* leaves the others.                                                      *)
(***************************************************************************)
EmptyArea == <<>>

NoError == [message |-> "", index |-> 0 - 1]

\* chrome.runtime.lastError after a failed set()
WriteErrors ==
    {[message |-> "QUOTA_BYTES quota exceeded", index |-> 0 - 1],
     [message |-> "QUOTA_BYTES_PER_ITEM quota exceeded", index |-> 0 - 1],
     [message |-> "IO error", index |-> 0 - 1]}

\* The test that takes every failure for a quota failure.
MentionsQuota_AnyError(err) == err.message # ""

\* The test with only the per-item quota recognised.
MentionsQuota_PerItemOnly(err) ==
    err.message = "QUOTA_BYTES_PER_ITEM quota exceeded"

\* message?.includes('QUOTA_BYTES') || message?.includes('QUOTA_BYTES_PER_ITEM')
MentionsQuota(err) ==
    err.message \in {"QUOTA_BYTES quota exceeded",
                     "QUOTA_BYTES_PER_ITEM quota exceeded"}

StoredList(prompts) == [i \in 1..Len(prompts) |-> Stored(prompts[i])]

\* A set that leaves the promptChunks key of the area as it was.
AreaSet_KeepChunks(area, data) ==
    Spread(area, [k \in DOMAIN data \ {"promptChunks"} |->
                    IF k = "prompts" THEN Def(StoredList(Val(data, "prompts")))
                    ELSE data[k]])

\* area.set(dataToSave), completed
AreaSet(area, data) ==
    Spread(area, [data EXCEPT !.prompts = Def(StoredList(Val(data, "prompts")))])

(***************************************************************************)
(* getPrompts                                                              *)
(***************************************************************************)
\* "[Error: Content chunks missing]"
ErrorSentinel ==
    FromCodes(<<91, 69, 114, 114, 111, 114, 58, 32, 67, 111, 110, 116, 101,
                110, 116, 32, 99, 104, 117, 110, 107, 115, 32, 109, 105, 115,
                115, 105, 110, 103, 93>>)

\* The callback without the comparison of the chunk count.
LoadOne_NoLength(prompt, chunks) ==
    IF Has(prompt, "chunkCount") /\ Val(prompt, "chunkCount") > 0
    THEN IF Has(prompt, "id") /\ Val(prompt, "id") \in DOMAIN chunks
         THEN reconstructPrompt(prompt, chunks[Val(prompt, "id")])
         ELSE Spread(prompt, [content |-> Def(ErrorSentinel)])
    ELSE prompt

\* The callback of savedPrompts.map in processPrompts.
LoadOne(prompt, chunks) ==
    IF Has(prompt, "chunkCount") /\ Val(prompt, "chunkCount") > 0
    THEN IF /\ Has(prompt, "id")
            /\ Val(prompt, "id") \in DOMAIN chunks
            /\ Len(chunks[Val(prompt, "id")]) = Val(prompt, "chunkCount")
         THEN reconstructPrompt(prompt, chunks[Val(prompt, "id")])
         ELSE Spread(prompt, [content |-> Def(ErrorSentinel)])
    ELSE prompt

processPrompts(result) ==
    LET storageType ==
            IF Has(result, "storageType") /\ Val(result, "storageType") # ""
            THEN Val(result, "storageType") ELSE "local"
        savedPrompts == IF Has(result, "prompts") THEN Val(result, "prompts") ELSE <<>>
        chunks == IF Has(result, "promptChunks") THEN Val(result, "promptChunks") ELSE <<>>
    IN  [prompts |-> [i \in 1..Len(savedPrompts) |-> LoadOne(savedPrompts[i], chunks)],
         storageType |-> storageType]

\* !result.prompts && !result.storageType on what chrome.storage.sync returned
ReadsLocal(s) ==
    /\ ~Has(s, "prompts")
    /\ ~(Has(s, "storageType") /\ Val(s, "storageType") # "")

\* What getPrompts() resolves to when the areas hold s and l.
getPrompts(s, l) == IF ReadsLocal(s) THEN processPrompts(l) ELSE processPrompts(s)

\* The areas getPrompts reads, in order.
AreasRead(s) == IF ReadsLocal(s) THEN <<"sync", "local">> ELSE <<"sync">>

(***************************************************************************)
(* savePrompts, up to the storage.set call                                 *)
(***************************************************************************)
RECURSIVE AddTags_Array(_, _)
\* The tags pushed on an array, which keeps a tag as often as it is added.
AddTags_Array(acc, tags) ==
    IF tags = <<>> THEN acc
    ELSE AddTags_Array(Append(acc, tags[1]), Tail(tags))

RECURSIVE AddTags(_, _)
\* tags.forEach((tag) => allTags.add(tag)); a Set keeps insertion order
AddTags(acc, tags) ==
    IF tags = <<>> THEN acc
    ELSE AddTags(IF \E i \in 1..Len(acc) : acc[i] = tags[1]
                 THEN acc ELSE Append(acc, tags[1]),
                 Tail(tags))

RECURSIVE AllTags(_, _)
AllTags(prompts, acc) ==
    IF prompts = <<>> THEN acc
    ELSE AllTags(Tail(prompts),
                 IF Has(prompts[1], "tags")
                 THEN AddTags(acc, Val(prompts[1], "tags")) ELSE acc)

\* One pass of prompts.forEach over regularPrompts, chunkedPromptsMetadata
\* and allChunks.
PartitionOne(acc, prompt) ==
    IF ExceedsLimit(SizeKB(BlobSize(prompt)))
    THEN LET r == chunkPrompt(prompt)
         IN  IF r.metadata # Null /\ Len(r.chunks) > 0
             THEN [acc EXCEPT
                     !.chunked = Append(@, r.metadata),
                     !.allChunks =
                        [k \in (DOMAIN @) \cup {Val(prompt, "id")} |->
                            IF k = Val(prompt, "id") THEN r.chunks ELSE @[k]]]
             ELSE acc
    ELSE [acc EXCEPT !.regular = Append(@, prompt)]

RECURSIVE Partition(_, _)
Partition(prompts, acc) ==
    IF prompts = <<>> THEN acc
    ELSE Partition(Tail(prompts), PartitionOne(acc, prompts[1]))

dataToSave(prompts, storageType) ==
    LET parts == Partition(prompts, [regular |-> <<>>, chunked |-> <<>>,
                                     allChunks |-> <<>>])
    IN  [prompts |-> Def(parts.regular \o parts.chunked),
         storageType |-> Def(storageType),
         tags |-> Def(AllTags(prompts, <<>>)),
         promptChunks |-> Def(parts.allChunks)]

(***************************************************************************)
(* searchPrompts                                                           *)
(***************************************************************************)
\* The normalisation without the lower-casing of the query.
normalizedQuery_NoLower(query) == trim(query)

\* query.toLowerCase().trim()
normalizedQuery(query) == trim(toLowerCase(query))

\* tags.some((tag) => prompt.tags?.includes(tag))
SomeTag(prompt, tags) ==
    \E i \in 1..Len(tags) :
        \E j \in 1..Len(Val(prompt, "tags")) : Val(prompt, "tags")[j] = tags[i]

\* The callback of prompts.filter
SearchKeeps(prompt, query, tags) ==
    IF Len(tags) > 0 /\ (~Has(prompt, "tags") \/ ~SomeTag(prompt, tags))
    THEN FALSE
    ELSE IF normalizedQuery(query) # <<>>
    THEN \/ includes(toLowerCase(Val(prompt, "title")), normalizedQuery(query))
         \/ includes(toLowerCase(Val(prompt, "content")), normalizedQuery(query))
    ELSE TRUE

RECURSIVE SearchFilter(_, _, _)
SearchFilter(prompts, query, tags) ==
    IF prompts = <<>> THEN <<>>
    ELSE (IF SearchKeeps(prompts[1], query, tags) THEN <<prompts[1]>> ELSE <<>>)
         \o SearchFilter(Tail(prompts), query, tags)

\* What searchPrompts(query, tags) returns when getPrompts gave prompts.
searchPrompts(prompts, query, tags) ==
    IF query = <<>> /\ Len(tags) = 0 THEN prompts
    ELSE SearchFilter(prompts, query, tags)

(***************************************************************************)
(* importPromptsFromJson, up to the savePrompts call                       *)
(***************************************************************************)
\* !prompt.id || !prompt.title || !prompt.content
MissingField(e) ==
    \E k \in {"id", "title", "content"} : ~Has(e, k) \/ Val(e, k) = <<>>

\* The validation without the test of content.
ImportError_NoContent(json) ==
    IF json.kind = "malformed"
    THEN [message |-> "Unexpected token in JSON", index |-> 0 - 1]
    ELSE IF json.kind # "array"
    THEN [message |-> "Invalid format: Expected an array of prompts", index |-> 0 - 1]
    ELSE IF \E i \in 1..Len(json.elems) :
                \E k \in {"id", "title"} :
                    ~Has(json.elems[i], k) \/ Val(json.elems[i], k) = <<>>
    THEN [message |-> "Invalid prompt format: Missing required fields (id, title, or content)",
          index |-> 0]
    ELSE NoError

\* What the parse and the validation throw on the text json, NoError when
\* they pass.  A text is "malformed" (JSON.parse throws), an "object" (it
\* parses to something that is no array) or an "array" of elements.
ImportError(json) ==
    IF json.kind = "malformed"
    THEN [message |-> "Unexpected token in JSON", index |-> 0 - 1]
    ELSE IF json.kind # "array"
    THEN [message |-> "Invalid format: Expected an array of prompts", index |-> 0 - 1]
    ELSE IF \E i \in 1..Len(json.elems) : MissingField(json.elems[i])
    THEN [message |-> "Invalid prompt format: Missing required fields (id, title, or content)",
          index |-> (CHOOSE i \in 1..Len(json.elems) :
                        /\ MissingField(json.elems[i])
                        /\ \A j \in 1..(i - 1) : ~MissingField(json.elems[j])) - 1]
    ELSE NoError

\* The map with a record replaced only by one that is not older.
MapSet_KeepNewer(m, prompt) ==
    IF \E i \in 1..Len(m) : Get(m[i], "id") = Get(prompt, "id")
    THEN [i \in 1..Len(m) |->
            IF /\ Get(m[i], "id") = Get(prompt, "id")
               /\ Val(prompt, "updatedAt") >= Val(m[i], "updatedAt")
            THEN prompt ELSE m[i]]
    ELSE Append(m, prompt)

\* map.set(prompt.id, prompt) on a Map held as the list of its values, which
\* is in insertion order of the keys
MapSet(m, prompt) ==
    IF \E i \in 1..Len(m) : Get(m[i], "id") = Get(prompt, "id")
    THEN [i \in 1..Len(m) |->
            IF Get(m[i], "id") = Get(prompt, "id") THEN prompt ELSE m[i]]
    ELSE Append(m, prompt)

RECURSIVE MapSetAll(_, _)
MapSetAll(m, prompts) ==
    IF prompts = <<>> THEN m
    ELSE MapSetAll(MapSet(m, prompts[1]), Tail(prompts))

\* Array.from(currentPromptsMap.values()) after the imported records are set
mergedPrompts(currentPrompts, importedPrompts) ==
    MapSetAll(MapSetAll(<<>>, currentPrompts), importedPrompts)

(***************************************************************************)
(* Inputs of the operations.                                               *)
(***************************************************************************)
\* "hi", "yo"
TextHi == FromCodes(<<104, 105>>)

TextYo == FromCodes(<<121, 111>>)

\* A record stored whole, with a tag BigB has too.
SmallA == Spread(MkPrompt(IdA, TitleT, TextHi), [tags |-> Def(<<TagAi>>)])

\* A record over the threshold, of two chunks.
BigB ==
    Spread(MkPrompt(IdB, TitleT, Content("wide", CHUNK_SIZE_CHARS + 1)),
           [tags |-> Def(<<TagAi, TagWriting>>)])

\* A record over the threshold whose content is empty.
HollowC == MkPrompt(IdC, Rep(97, FitLen(IdC, <<>>) + 1), <<>>)

SavePool == {SmallA, BigB, HollowC}

\* An older edit of SmallA.
OtherA == Spread(MkPrompt(IdA, TitleT, TextYo), [updatedAt |-> Def(500)])

\* [{"title":"Note"}]
NoIdElem == [title |-> Def(TitleT)]

\* An element whose content is the empty string.
EmptyElem == MkPrompt(IdB, TitleT, <<>>)

\* A valid element that carries a chunkCount of its own.
CountedC == Spread(MkPrompt(IdC, TitleT, TextHi), [chunkCount |-> Def(2)])

\* The elements that pass the validation, and those that do not.
ImportPool == {SmallA, OtherA, BigB, CountedC}

InvalidPool == {NoIdElem, EmptyElem}

\* The lists of at most MaxList records of pool, no record twice
ListsOver(pool) ==
    {l \in UNION {[1..n -> pool] : n \in 0..MaxList} :
        \A i, j \in 1..Len(l) : i # j => l[i] # l[j]}

\* The arrays with one invalid element, alone, first or last
InvalidArrays ==
    UNION {{<<e>>, <<OtherA, e>>, <<e, OtherA>>} : e \in InvalidPool}

JsonInputs ==
    {[kind |-> "malformed", elems |-> <<>>], [kind |-> "object", elems |-> <<>>]}
    \cup {[kind |-> "array", elems |-> e] :
            e \in ListsOver(ImportPool) \cup InvalidArrays}

(***************************************************************************)
(* The operations.  op is the call whose callback runs next; a caller that *)
(* awaits each call before the next has no other.  A caller that does not  *)
(* has a second call in flight, held in other while op runs.               *)
(***************************************************************************)
\* "General", a tag no record of the pools has
TagGeneral == FromCodes(<<71, 101, 110, 101, 114, 97, 108>>)

\* "Education & Learning"
TagEducation ==
    FromCodes(<<69, 100, 117, 99, 97, 116, 105, 111, 110, 32, 38, 32, 76,
    101, 97, 114, 110, 105, 110, 103>>)

\* "Personal"
TagPersonal ==
    FromCodes(<<80, 101, 114, 115, 111, 110, 97, 108>>)

\* "Coding & Development"
TagCoding ==
    FromCodes(<<67, 111, 100, 105, 110, 103, 32, 38, 32, 68, 101, 118, 101,
    108, 111, 112, 109, 101, 110, 116>>)

\* "AI Roleplay & Agents"
TagRoleplay ==
    FromCodes(<<65, 73, 32, 82, 111, 108, 101, 112, 108, 97, 121, 32, 38,
    32, 65, 103, 101, 110, 116, 115>>)

\* "Research"
TagResearch ==
    FromCodes(<<82, 101, 115, 101, 97, 114, 99, 104>>)

\* "Design"
TagDesign ==
    FromCodes(<<68, 101, 115, 105, 103, 110>>)

DEFAULT_TAGS ==
    <<TagGeneral, TagEducation, TagPersonal, TagCoding, TagRoleplay,
      TagWriting, TagResearch, TagDesign>>

\* What getAllTags() resolves to when the sync area is s.
getAllTags(s) ==
    IF ~Has(s, "tags") \/ Len(Val(s, "tags")) = 0
    THEN DEFAULT_TAGS
    ELSE Val(s, "tags")

\* "", "NOTE", " hi ", a capital E acute, "zz", " "
Queries ==
    {<<>>, FromCodes(<<78, 79, 84, 69>>), FromCodes(<<32, 104, 105, 32>>),
     FromCodes(<<201>>), FromCodes(<<122, 122>>), FromCodes(<<32>>)}

TagFilters == {<<>>, <<TagGeneral, TagWriting>>, <<TagGeneral>>}

OpIdle ==
    [name |-> "none", pc |-> "idle", input |-> <<>>, json |-> <<>>,
     query |-> <<>>, tags |-> <<>>, caught |-> NoError,
     st |-> "local", data |-> <<>>, outcome |-> "none", error |-> NoError,
     result |-> [prompts |-> <<>>, storageType |-> "local"],
     reads |-> <<>>, writes |-> <<>>,
     before |-> [sync |-> EmptyArea, local |-> EmptyArea],
     again |-> FALSE]

Init ==
    /\ sync = EmptyArea
    /\ local = EmptyArea
    /\ op = OpIdle
    /\ nops = 0
    /\ ck = CkIdle
    /\ other = OpIdle

CanStart == op.pc \in {"idle", "done"} /\ nops < MaxOps

\* The call c made now: the areas as the call finds them, and whether it
\* is the import of the text whose import has just resolved.
Called(c) ==
    [c EXCEPT !.before = [sync |-> sync, local |-> local],
              !.again = /\ c.name = "import"
                        /\ op.name = "import"
                        /\ op.outcome = "resolved"
                        /\ op.json = c.json]

\* getPrompts(), to completion.
Load ==
    /\ CanStart
    /\ op' = Called([OpIdle EXCEPT !.name = "load", !.pc = "done",
                                   !.outcome = "resolved",
                                   !.result = getPrompts(sync, local),
                                   !.reads = AreasRead(sync)])
    /\ nops' = nops + 1
    /\ UNCHANGED <<sync, local, ck, other>>

\* The call savePrompts(prompts, storageType) when it reaches storage.set.
SaveStarted(prompts, storageType) ==
    [OpIdle EXCEPT !.name = "save", !.pc = "primary",
                   !.input = prompts, !.st = storageType,
                   !.data = dataToSave(prompts, storageType)]

\* The calls on the new lists.
SaveCalls ==
    {SaveStarted(prompts, storageType) :
        prompts \in ListsOver(SavePool), storageType \in {"local", "notion"}}

\* searchPrompts(query, tags), to completion.
Search ==
    /\ CanStart
    /\ \E query \in Queries, tags \in TagFilters :
        op' = Called([OpIdle EXCEPT
                        !.name = "search", !.pc = "done",
                        !.outcome = "resolved",
                        !.query = query, !.tags = tags,
                        !.reads = AreasRead(sync),
                        !.result =
                            [prompts |-> searchPrompts(getPrompts(sync, local).prompts,
                                                       query, tags),
                             storageType |-> getPrompts(sync, local).storageType]])
    /\ nops' = nops + 1
    /\ UNCHANGED <<sync, local, ck, other>>

\* savePrompts(prompts, storageType) up to its storage.set call.  The list
\* is a new one or the list the preceding getPrompts returned.
SaveCall ==
    /\ CanStart
    /\ \/ \E c \in SaveCalls : op' = Called(c)
       \/ /\ op.name = "load"
          /\ \E storageType \in {"local", "notion"} :
                op' = Called(SaveStarted(op.result.prompts, storageType))
    /\ nops' = nops + 1
    /\ UNCHANGED <<sync, local, ck, other>>

\* The call that goes on to its last status update whatever the save did.
AfterSave_AlwaysEnd(o) ==
    IF o.name # "sync" THEN o
    ELSE [o EXCEPT !.pc = "statusEnd", !.outcome = "none"]

\* The call o once its savePrompts has settled: a direct save or an import
\* is done; syncWithNotion goes on to its last status update, or to its
\* catch block with the error of the save.
AfterSave(o) ==
    IF o.name # "sync" THEN o
    ELSE IF o.outcome = "resolved"
    THEN [o EXCEPT !.pc = "statusEnd", !.outcome = "none"]
    ELSE [o EXCEPT !.pc = "statusCatch", !.outcome = "none",
                   !.caught = o.error, !.error = NoError]

\* The first write made to both areas at once.
PrimaryWrite_BothAreas ==
    /\ op.pc = "primary"
    /\ \E lastError \in WriteErrors \cup {NoError} :
        LET area == IF op.st = "local" THEN "local" ELSE "sync"
            done == [op EXCEPT !.pc = "done",
                               !.writes = Append(@, [area |-> area,
                                                     error |-> lastError])]
        IN  IF lastError = NoError
            THEN /\ sync' = AreaSet(sync, op.data)
                 /\ local' = AreaSet(local, op.data)
                 /\ op' = AfterSave([done EXCEPT !.outcome = "resolved"])
            ELSE /\ UNCHANGED <<sync, local>>
                 /\ IF op.st # "local" /\ MentionsQuota(lastError)
                    THEN op' = [done EXCEPT !.pc = "fallback"]
                    ELSE op' = AfterSave([done EXCEPT !.outcome = "rejected",
                                                      !.error = lastError])
    /\ UNCHANGED <<nops, ck, other>>

\* The callback of the first storage.set: the write is done, or
\* chrome.runtime.lastError is set and nothing is written.
PrimaryWrite ==
    /\ op.pc = "primary"
    /\ \E lastError \in WriteErrors \cup {NoError} :
        LET area == IF op.st = "local" THEN "local" ELSE "sync"
            done == [op EXCEPT !.pc = "done",
                               !.writes = Append(@, [area |-> area,
                                                     error |-> lastError])]
        IN  IF lastError = NoError
            THEN /\ sync' = IF area = "sync" THEN AreaSet(sync, op.data) ELSE sync
                 /\ local' = IF area = "local" THEN AreaSet(local, op.data) ELSE local
                 /\ op' = AfterSave([done EXCEPT !.outcome = "resolved"])
            ELSE /\ UNCHANGED <<sync, local>>
                 /\ IF op.st # "local" /\ MentionsQuota(lastError)
                    THEN op' = [done EXCEPT !.pc = "fallback"]
                    ELSE op' = AfterSave([done EXCEPT !.outcome = "rejected",
                                                      !.error = lastError])
    /\ UNCHANGED <<nops, ck, other>>

\* The callback of chrome.storage.local.set in the quota fallback.
FallbackWrite ==
    /\ op.pc = "fallback"
    /\ \E lastError \in WriteErrors \cup {NoError} :
        LET done == [op EXCEPT !.pc = "done",
                               !.writes = Append(@, [area |-> "local",
                                                     error |-> lastError])]
        IN  IF lastError = NoError
            THEN /\ local' = AreaSet(local, op.data)
                 /\ op' = AfterSave([done EXCEPT !.outcome = "resolved"])
            ELSE /\ UNCHANGED local
                 /\ op' = AfterSave([done EXCEPT
                             !.outcome = "rejected",
                             !.error = [message |-> "Storage quota exceeded. Please reduce prompt content size or clear some prompts.",
                                        index |-> 0 - 1]])
    /\ UNCHANGED <<sync, nops, ck, other>>

\* The call importPromptsFromJson(json) after its parse and validation.
ImportStarted(json) ==
    IF ImportError(json) # NoError
    THEN [OpIdle EXCEPT !.name = "import", !.pc = "done",
                        !.json = json, !.outcome = "rejected",
                        !.error = ImportError(json)]
    ELSE [OpIdle EXCEPT !.name = "import", !.pc = "loading", !.json = json]

ImportCalls == {ImportStarted(json) : json \in JsonInputs}

\* importPromptsFromJson(json) up to its first await: the parse and the
\* validation, which throw, or the getPrompts call.
ImportCall ==
    /\ CanStart
    /\ \E c \in ImportCalls : op' = Called(c)
    /\ nops' = nops + 1
    /\ UNCHANGED <<sync, local, ck, other>>

\* getPrompts has resolved: the merge, and savePrompts up to storage.set.
ImportMerge ==
    /\ op.pc = "loading"
    /\ LET current == getPrompts(sync, local)
           merged == mergedPrompts(current.prompts, op.json.elems)
       IN  op' = [op EXCEPT !.pc = "primary",
                            !.reads = AreasRead(sync),
                            !.input = merged,
                            !.st = current.storageType,
                            !.result = [prompts |-> merged,
                                        storageType |-> current.storageType],
                            !.data = dataToSave(merged, current.storageType)]
    /\ UNCHANGED <<sync, local, nops, ck, other>>

(***************************************************************************)
(* syncWithNotion.  notionConfig and syncStatus are keys of the sync area. *)
(* A value that can be null is <<>> when null and <<v>> otherwise.         *)
(***************************************************************************)
Some(v) == <<v>>

\* { lastSynced: null, inProgress: false, error: null }
DefaultStatus ==
    [lastSynced |-> Def(Null), inProgress |-> Def(FALSE), error |-> Def(Null)]

\* What getSyncStatus() resolves to when the sync area is s.
getSyncStatus(s) ==
    IF Has(s, "syncStatus") THEN Val(s, "syncStatus") ELSE DefaultStatus

\* What getNotionConfig() resolves to: the stored configuration or null.
getNotionConfig(s) ==
    IF Has(s, "notionConfig") THEN Some(Val(s, "notionConfig")) ELSE Null

\* The update that stores the fields it is given over the default status.
StatusSet_OverDefault(s, status) ==
    Spread(s, [syncStatus |-> Def(Spread(DefaultStatus, status))])

\* The sync area after updateSyncStatus(status) has written.
StatusSet(s, status) ==
    Spread(s, [syncStatus |-> Def(Spread(getSyncStatus(s), status))])

\* error instanceof Error: chrome.runtime.lastError is a plain object, what
\* the code throws with new Error(...) is not.
InstanceOfError(err) == err \notin WriteErrors

\* Date.now(): the clock moves on with every operation.
DateNow == 3000 + nops

NotConfigured == [message |-> "Notion is not configured", index |-> 0 - 1]

\* The error of a failed exchange with Notion.
RemoteError == [message |-> "Notion API request failed", index |-> 0 - 1]

\* The records the exchange can return.
RemotePool == SavePool

\* syncWithNotion() up to its try block: getPrompts, getNotionConfig and the
\* test of the configuration.
SyncCall ==
    /\ CanStart
    /\ op' = Called(IF getNotionConfig(sync) = Null
                    THEN [OpIdle EXCEPT !.name = "sync", !.pc = "done",
                                        !.reads = AreasRead(sync),
                                        !.outcome = "rejected",
                                        !.error = NotConfigured]
                    ELSE [OpIdle EXCEPT !.name = "sync", !.pc = "statusStart",
                                        !.reads = AreasRead(sync)])
    /\ nops' = nops + 1
    /\ UNCHANGED <<sync, local, ck, other>>

\* await updateSyncStatus({ inProgress: true, error: null })
StatusStart ==
    /\ op.pc = "statusStart"
    /\ \E lastError \in WriteErrors \cup {NoError} :
        IF lastError = NoError
        THEN /\ sync' = StatusSet(sync, [inProgress |-> Def(TRUE),
                                         error |-> Def(Null)])
             /\ op' = [op EXCEPT !.pc = "remote"]
        ELSE /\ UNCHANGED sync
             /\ op' = [op EXCEPT !.pc = "statusCatch", !.caught = lastError]
    /\ UNCHANGED <<local, nops, ck, other>>

\* const syncedPrompts = await notionSync(prompts), and savePrompts up to
\* its storage.set call.  The exchange returns the list it was given or
\* another list, or fails.
Remote ==
    /\ op.pc = "remote"
    /\ \/ \E syncedPrompts \in ListsOver(RemotePool)
                \cup {getPrompts(op.before.sync, op.before.local).prompts} :
            op' = [op EXCEPT !.pc = "primary",
                             !.input = syncedPrompts,
                             !.st = "notion",
                             !.result = [prompts |-> syncedPrompts,
                                         storageType |-> "notion"],
                             !.data = dataToSave(syncedPrompts, "notion")]
       \/ op' = [op EXCEPT !.pc = "statusCatch", !.caught = RemoteError]
    /\ UNCHANGED <<sync, local, nops, ck, other>>

\* await updateSyncStatus({ lastSynced: Date.now(), inProgress: false })
\* and return syncedPrompts
StatusEnd ==
    /\ op.pc = "statusEnd"
    /\ \E lastError \in WriteErrors \cup {NoError} :
        IF lastError = NoError
        THEN /\ sync' = StatusSet(sync, [lastSynced |-> Def(Some(DateNow)),
                                         inProgress |-> Def(FALSE)])
             /\ op' = [op EXCEPT !.pc = "done", !.outcome = "resolved"]
        ELSE /\ UNCHANGED sync
             /\ op' = [op EXCEPT !.pc = "statusCatch", !.caught = lastError]
    /\ UNCHANGED <<local, nops, ck, other>>

\* The catch block: updateSyncStatus({ inProgress: false, error: ... }) and
\* throw error; when the update fails its error is thrown instead.
StatusCatch ==
    /\ op.pc = "statusCatch"
    /\ \E lastError \in WriteErrors \cup {NoError} :
        IF lastError = NoError
        THEN /\ sync' = StatusSet(sync,
                    [inProgress |-> Def(FALSE),
                     error |-> Def(Some(IF InstanceOfError(op.caught)
                                        THEN op.caught.message
                                        ELSE "Unknown error during sync"))])
             /\ op' = [op EXCEPT !.pc = "done", !.outcome = "rejected",
                                 !.error = op.caught]
        ELSE /\ UNCHANGED sync
             /\ op' = [op EXCEPT !.pc = "done", !.outcome = "rejected",
                                 !.error = lastError]
    /\ UNCHANGED <<local, nops, ck, other>>

(***************************************************************************)
(* initializeDefaultTags, and a caller that does not await.                *)
(***************************************************************************)
\* initializeDefaultTags() up to its storage.set call: the read of the tags
\* key and the test on it.
InitTagsCall ==
    /\ CanStart
    /\ op' = Called(IF ~Has(sync, "tags") \/ Len(Val(sync, "tags")) = 0
                    THEN [OpIdle EXCEPT !.name = "initTags", !.pc = "tagsSet",
                                        !.reads = <<"sync">>]
                    ELSE [OpIdle EXCEPT !.name = "initTags", !.pc = "done",
                                        !.reads = <<"sync">>,
                                        !.outcome = "resolved"])
    /\ nops' = nops + 1
    /\ UNCHANGED <<sync, local, ck, other>>

\* The callback of chrome.storage.sync.set({ tags: DEFAULT_TAGS }).
InitTagsWrite ==
    /\ op.pc = "tagsSet"
    /\ \E lastError \in WriteErrors \cup {NoError} :
        LET done == [op EXCEPT !.pc = "done",
                               !.writes = Append(@, [area |-> "sync",
                                                     error |-> lastError])]
        IN  IF lastError = NoError
            THEN /\ sync' = Spread(sync, [tags |-> Def(DEFAULT_TAGS)])
                 /\ op' = [done EXCEPT !.outcome = "resolved"]
            ELSE /\ UNCHANGED sync
                 /\ op' = [done EXCEPT !.outcome = "rejected",
                                       !.error = lastError]
    /\ UNCHANGED <<local, nops, ck, other>>

\* The caller goes on without awaiting the call in flight, or the event
\* loop turns to the callback of the call that was left waiting.
Switch ==
    /\ op.pc \notin {"idle", "done"} \/ other.pc \notin {"idle", "done"}
    /\ op' = other
    /\ other' = op
    /\ UNCHANGED <<sync, local, nops, ck>>

Next ==
    \/ Load
    \/ Search
    \/ SaveCall
    \/ PrimaryWrite
    \/ FallbackWrite
    \/ ImportCall
    \/ ImportMerge

Spec == Init /\ [][Next]_vars

(***************************************************************************)
(* Imports into a collection that earlier saves have left: the sync area   *)
(* as a save under 'notion' wrote it, the local area as a save under       *)
(* 'local' or a quota fallback wrote it.                                   *)
(***************************************************************************)
Saved(prompts, storageType) == AreaSet(EmptyArea, dataToSave(prompts, storageType))

SeedLists == {<<SmallA>>, <<BigB, SmallA>>}

SeedSync == {EmptyArea} \cup {Saved(l, "notion") : l \in SeedLists}

SeedLocal ==
    {EmptyArea} \cup {Saved(l, st) : l \in SeedLists, st \in {"local", "notion"}}

ImportInit ==
    /\ sync \in SeedSync
    /\ local \in SeedLocal
    /\ op = OpIdle
    /\ nops = 0
    /\ ck = CkIdle
    /\ other = OpIdle

ImportNext ==
    \/ ImportCall
    \/ ImportMerge
    \/ PrimaryWrite
    \/ FallbackWrite

ImportSpec == ImportInit /\ [][ImportNext]_vars

(***************************************************************************)
(* syncWithNotion on a sync area with or without the Notion configuration, *)
(* over a collection that earlier saves have left.                         *)
(***************************************************************************)
\* { apiKey, pageId }
ConfigA == [apiKey |-> Def("secret"), pageId |-> Def("page")]

SyncSeeds ==
    {Spread(a, c) : a \in {EmptyArea, Saved(<<SmallA>>, "notion")},
                    c \in {EmptyArea, [notionConfig |-> Def(ConfigA)]}}

SyncInit ==
    /\ sync \in SyncSeeds
    /\ local \in {EmptyArea, Saved(<<SmallA>>, "local")}
    /\ op = OpIdle
    /\ nops = 0
    /\ ck = CkIdle
    /\ other = OpIdle

SyncNext ==
    \/ SyncCall
    \/ StatusStart
    \/ Remote
    \/ PrimaryWrite
    \/ FallbackWrite
    \/ StatusEnd
    \/ StatusCatch

SyncSpec == SyncInit /\ [][SyncNext]_vars

(***************************************************************************)
(* Calls that overlap.  The caller has made one savePrompts call, or two,  *)
(* without awaiting: each waits for its storage.set.  The call of          *)
(* initializeDefaultTags is made while they wait or after one has settled. *)
(***************************************************************************)
RaceInit ==
    /\ sync = EmptyArea
    /\ local = EmptyArea
    /\ op \in SaveCalls
    /\ other \in SaveCalls \cup {OpIdle}
    /\ nops = MaxOps - 1
    /\ ck = CkIdle

RaceNext ==
    \/ PrimaryWrite
    \/ FallbackWrite
    \/ InitTagsCall
    \/ InitTagsWrite
    \/ Switch

RaceSpec == RaceInit /\ [][RaceNext]_vars

(***************************************************************************)
(* chunkPrompt and reconstructPrompt started from each input record.       *)
(***************************************************************************)
ChunkInit ==
    /\ sync = EmptyArea
    /\ local = EmptyArea
    /\ op = OpIdle
    /\ nops = 0
    /\ ck \in {[CkIdle EXCEPT !.pc = "input", !.prompt = p] : p \in ChunkInputs}
    /\ other = OpIdle

ChunkNext == DoChunk \/ DoReconstruct

ChunkSpec == ChunkInit /\ [][ChunkNext]_vars

(***************************************************************************)
(* getPrompts over stored data it did not write itself: areas as another   *)
(* installation sharing chrome.storage.sync, an earlier version of the     *)
(* extension or a partial write can have left them, with a metadata shell  *)
(* whose chunks are missing, too few or too many.                          *)
(***************************************************************************)
ShellB == Stored(chunkPrompt(BigB).metadata)

ChunksB == chunkPrompt(BigB).chunks

StoredLists ==
    {<<>>, <<SmallA>>, <<ShellB>>, <<SmallA, ShellB>>, <<ShellB, SmallA>>}

\* The promptChunks values: no entry for the shell, one chunk of its two,
\* both, and one too many.
StoredChunkMaps ==
    {<<>>} \cup {[k \in {IdB} |-> c] :
                    c \in {SubSeq(ChunksB, 1, 1), ChunksB, Append(ChunksB, TextHi)}}

StoredAreas ==
    {EmptyArea}
    \cup {[prompts |-> Def(l), storageType |-> Def(st), tags |-> Def(<<>>),
           promptChunks |-> Def(m)] :
            l \in StoredLists, st \in {"local", "notion"}, m \in StoredChunkMaps}
    \cup {[prompts |-> Def(l), storageType |-> Def("local")] : l \in StoredLists}
    \cup {[prompts |-> Def(l), promptChunks |-> Def(m)] :
            l \in StoredLists, m \in StoredChunkMaps}
    \cup {[storageType |-> Def("notion")]}

LoadInit ==
    /\ sync \in StoredAreas
    /\ local \in StoredAreas
    /\ op = OpIdle
    /\ nops = 0
    /\ ck = CkIdle
    /\ other = OpIdle

LoadNext == Load

LoadSpec == LoadInit /\ [][LoadNext]_vars

(***************************************************************************)
(* Properties.                                                             *)
(***************************************************************************)
ThresholdBytes == MAX_PROMPT_SIZE_KB * 1024

RecordFields == {"id", "title", "tags", "createdAt", "updatedAt", "content"}

\* C1: for a record whose serialized size exceeds the 7 KB threshold,
\* reconstructPrompt applied to the metadata and chunks of chunkPrompt gives
\* the record back: the same id, title, tags, createdAt, updatedAt and
\* content, and neither chunkCount nor originalSize.
C1_RoundTrip ==
    (ck.pc = "rebuilt" /\ BlobSize(ck.prompt) > ThresholdBytes) =>
        /\ \A k \in RecordFields : Get(ck.rebuilt, k) = Get(ck.prompt, k)
        /\ ~Has(ck.rebuilt, "chunkCount")
        /\ ~Has(ck.rebuilt, "originalSize")

C1_Witness ==
    /\ ck.pc = "rebuilt"
    /\ BlobSize(ck.prompt) > ThresholdBytes
    /\ Len(ck.chunks) >= 3
    /\ Has(ck.metadata, "chunkCount")
    /\ Val(ck.rebuilt, "content") = Val(ck.prompt, "content")

\* C2: for a record that chunkPrompt chunks, the chunks concatenated in
\* their returned order are exactly the record's content, and there are
\* metadata.chunkCount of them.
C2_ChunksJoin ==
    (ck.pc \in {"chunked", "rebuilt"} /\ ck.metadata # Null) =>
        /\ Join(ck.chunks) = Val(ck.prompt, "content")
        /\ Len(ck.chunks) = Val(ck.metadata, "chunkCount")

C2_Witness ==
    /\ ck.pc = "chunked"
    /\ ck.metadata # Null
    /\ Len(ck.chunks) = 4
    /\ StrLen(ck.chunks[4]) = 1

\* C3: for a record whose serialized size is at or below the threshold,
\* 7 KB itself included, chunkPrompt returns metadata null and no chunks.
C3_NoChunkBelow ==
    (ck.pc \in {"chunked", "rebuilt"} /\ BlobSize(ck.prompt) <= ThresholdBytes) =>
        /\ ck.metadata = Null
        /\ ck.chunks = <<>>

C3_Witness ==
    /\ ck.pc = "chunked"
    /\ BlobSize(ck.prompt) = ThresholdBytes
    /\ StrLen(Val(ck.prompt, "content")) > 2 * CHUNK_SIZE_CHARS
    /\ ck.metadata = Null

\* A record as its consumers read it.
View(p) == [k \in RecordFields |-> Get(p, k)]

Views(list) == {View(list[i]) : i \in 1..Len(list)}

\* A savePrompts call, direct or made by the import, has resolved.
SaveResolved ==
    /\ op.name \in {"save", "import"}
    /\ op.pc = "done"
    /\ op.outcome = "resolved"

\* The area the resolved save wrote.
WrittenArea == IF op.writes[Len(op.writes)].area = "local" THEN local ELSE sync

StoredPrompts(a) == IF Has(a, "prompts") THEN Val(a, "prompts") ELSE <<>>

StoredChunks(a) == IF Has(a, "promptChunks") THEN Val(a, "promptChunks") ELSE <<>>

IsShell(e) == Has(e, "chunkCount") /\ Val(e, "chunkCount") > 0

\* The shell e of area a has as many chunks under its id as it declares.
ChunksMatch(a, e) ==
    /\ Val(e, "id") \in DOMAIN StoredChunks(a)
    /\ Len(StoredChunks(a)[Val(e, "id")]) = Val(e, "chunkCount")

CollectionKeys == {"prompts", "storageType", "tags", "promptChunks"}

\* C4: once savePrompts(records, storageType) has resolved, directly or by
\* the local fallback, getPrompts() returns exactly the records passed to
\* it, each with its title, tags, timestamps and content.
C4_SaveThenLoad ==
    SaveResolved => Views(getPrompts(sync, local).prompts) = Views(op.input)

\* C4 with the records the save stores in full only, and the second save of
\* two: what is read back is still not what was saved.
C4_StaleRead ==
    (/\ SaveResolved
     /\ nops = 2
     /\ \A i \in 1..Len(op.input) :
            /\ ~Has(op.input[i], "chunkCount")
            /\ Val(op.input[i], "content") # <<>>)
        => Views(getPrompts(sync, local).prompts) = Views(op.input)

QuotaMessages ==
    {"QUOTA_BYTES quota exceeded", "QUOTA_BYTES_PER_ITEM quota exceeded"}

\* C5: when the storageType is not 'local' and the first write fails with a
\* quota error, the same data is written to the local area, and when that
\* write succeeds the save resolves.
C5_QuotaFallback ==
    (/\ op.name \in {"save", "import"}
     /\ Len(op.writes) >= 1
     /\ op.st # "local"
     /\ op.writes[1].error.message \in QuotaMessages)
        => \/ op.pc = "fallback" /\ Len(op.writes) = 1
           \/ /\ op.pc = "done"
              /\ Len(op.writes) = 2
              /\ op.writes[2].area = "local"
              /\ op.writes[2].error = NoError =>
                    /\ op.outcome = "resolved"
                    /\ \A k \in CollectionKeys :
                        Get(local, k) = Get(AreaSet(EmptyArea, op.data), k)

C5_Witness ==
    /\ op.name = "save"
    /\ op.pc = "done"
    /\ op.st = "notion"
    /\ Len(op.writes) = 2
    /\ op.writes[1].error.message = "QUOTA_BYTES quota exceeded"
    /\ op.writes[2].error = NoError
    /\ op.outcome = "resolved"
    /\ Len(StoredPrompts(local)) = 2
    /\ ~Has(sync, "prompts")

\* C6: getPrompts returns one record per stored entry; for a metadata shell
\* whose chunks are absent or not chunkCount many, the record's content is
\* the error sentinel, and every other entry has its own content: the
\* stored content, or the stored chunks joined.
C6_Degrades ==
    (op.name = "load" /\ op.pc = "done") =>
        LET a == IF ReadsLocal(sync) THEN local ELSE sync
            saved == StoredPrompts(a)
            got == op.result.prompts
        IN  /\ Len(got) = Len(saved)
            /\ \A i \in 1..Len(saved) :
                IF IsShell(saved[i]) /\ ~ChunksMatch(a, saved[i])
                THEN Get(got[i], "content") = Def(ErrorSentinel)
                ELSE IF IsShell(saved[i])
                THEN Get(got[i], "content")
                        = Def(Join(StoredChunks(a)[Val(saved[i], "id")]))
                ELSE Get(got[i], "content") = Get(saved[i], "content")

C6_Witness ==
    /\ op.name = "load"
    /\ op.pc = "done"
    /\ Len(op.result.prompts) = 2
    /\ Get(op.result.prompts[1], "content") = Def(ErrorSentinel)
    /\ Get(op.result.prompts[2], "content") = Def(TextHi)
    /\ IdB \in DOMAIN StoredChunks(sync)
    /\ Len(StoredChunks(sync)[IdB]) = 1

\* C7: no record returned by getPrompts carries chunkCount or originalSize,
\* whether it was stored whole, rebuilt from its chunks or returned with the
\* error sentinel as its content.
C7_NoInternalKeys ==
    (op.name = "load" /\ op.pc = "done") =>
        \A i \in 1..Len(op.result.prompts) :
            /\ ~Has(op.result.prompts[i], "chunkCount")
            /\ ~Has(op.result.prompts[i], "originalSize")

\* C8: after a successful savePrompts, in the area written, every entry of
\* the records list either has no chunkCount and holds its content, or has
\* chunkCount = N >= 1 and exactly N chunks under its id; and every id of
\* the chunk mapping is the id of such a shell.
C8_ShellsHaveChunks ==
    SaveResolved =>
        LET a == WrittenArea
            saved == StoredPrompts(a)
        IN  /\ \A i \in 1..Len(saved) :
                \/ ~Has(saved[i], "chunkCount") /\ Has(saved[i], "content")
                \/ IsShell(saved[i]) /\ ChunksMatch(a, saved[i])
            /\ \A id \in DOMAIN StoredChunks(a) :
                \E i \in 1..Len(saved) :
                    IsShell(saved[i]) /\ Val(saved[i], "id") = id

\* C9: savePrompts persists every record it is given: the stored list is as
\* long as the input, and each input record is in it, whole when its size
\* is at or below the threshold, as a shell with chunks under its id when
\* it is above, an oversized record with empty content included.
C9_NothingDropped ==
    SaveResolved =>
        LET a == WrittenArea
            saved == StoredPrompts(a)
        IN  /\ Len(saved) = Len(op.input)
            /\ \A i \in 1..Len(op.input) :
                \E j \in 1..Len(saved) :
                    IF BlobSize(op.input[i]) <= ThresholdBytes
                    THEN saved[j] = Stored(op.input[i])
                    ELSE /\ Get(saved[j], "id") = Get(op.input[i], "id")
                         /\ Has(saved[j], "chunkCount")
                         /\ Val(op.input[i], "id") \in DOMAIN StoredChunks(a)

\* The text is no valid JSON, no array, or has an element whose id, title
\* or content is missing or empty.
BadJson(json) ==
    \/ json.kind # "array"
    \/ \E i \in 1..Len(json.elems) :
        \E k \in {"id", "title", "content"} :
            \/ k \notin DOMAIN json.elems[i]
            \/ json.elems[i][k] = Undefined
            \/ json.elems[i][k] = Def(<<>>)

\* C10: importPromptsFromJson on such a text fails in the step that starts
\* it: no area is read or written, both areas are as they were, and
\* getPrompts returns what it returned before the import.
C10_RejectsEarly ==
    [][(nops' = nops + 1 /\ op'.name = "import" /\ BadJson(op'.json)) =>
        /\ op'.pc = "done"
        /\ op'.outcome = "rejected"
        /\ op'.reads = <<>>
        /\ op'.writes = <<>>
        /\ sync' = sync
        /\ local' = local
        /\ getPrompts(sync', local') = getPrompts(sync, local)]_vars

C10_Witness ==
    /\ op.name = "import"
    /\ op.pc = "done"
    /\ op.outcome = "rejected"
    /\ op.json.kind = "array"
    /\ Len(op.json.elems) = 2
    /\ op.error.index = 1
    /\ op.reads = <<>>
    /\ op.writes = <<>>
    /\ Len(getPrompts(sync, local).prompts) = 2

\* The import has passed its validation and merged: savePrompts is called.
ImportMerged == op.name = "import" /\ op.pc = "primary"

\* The index of the last element of list with the id of r, 0 when none has
LastWithId(list, r) ==
    IF \E k \in 1..Len(list) : Get(list[k], "id") = Get(r, "id")
    THEN CHOOSE k \in 1..Len(list) :
            /\ Get(list[k], "id") = Get(r, "id")
            /\ \A j \in (k + 1)..Len(list) : Get(list[j], "id") # Get(r, "id")
    ELSE 0

\* C11: for a valid import array, the list passed to savePrompts and
\* returned has exactly one record per id of the current collection and of
\* the array: the last imported element with that id whatever its
\* updatedAt, and for an id not imported the current record unchanged.
C11_MergeById ==
    ImportMerged =>
        LET current == getPrompts(sync, local).prompts
            imported == op.json.elems
            merged == op.input
            idsOf(l) == {Get(l[i], "id") : i \in 1..Len(l)}
        IN  /\ op.result.prompts = merged
            /\ idsOf(merged) = idsOf(current) \cup idsOf(imported)
            /\ \A i, j \in 1..Len(merged) :
                    Get(merged[i], "id") = Get(merged[j], "id") => i = j
            /\ \A i \in 1..Len(merged) :
                    IF LastWithId(imported, merged[i]) # 0
                    THEN merged[i] = imported[LastWithId(imported, merged[i])]
                    ELSE \E j \in 1..Len(current) : current[j] = merged[i]

C11_Witness ==
    /\ ImportMerged
    /\ op.json.elems = <<SmallA, OtherA>>
    /\ Len(getPrompts(sync, local).prompts) = 2
    /\ Get(getPrompts(sync, local).prompts[1], "id") = Def(IdA)
    /\ op.input[1] = OtherA
    /\ Get(op.input[2], "id") = Def(IdB)

\* The import that has resolved follows a resolved import of the same text.
ImportedTwice ==
    /\ op.name = "import"
    /\ op.pc = "done"
    /\ op.outcome = "resolved"
    /\ op.again

\* C12: importing the same valid array twice in a row leaves the collection
\* getPrompts returns as it was after the first import, whatever the
\* collection the first import started from.
C12_ImportTwice ==
    ImportedTwice =>
        getPrompts(sync, local).prompts
            = getPrompts(op.before.sync, op.before.local).prompts

\* q occurs in s at some offset.
IsSubstring(q, s) ==
    \E i \in 0..(StrLen(s) - StrLen(q)) : Slice(s, i, i + StrLen(q)) = q

RECURSIVE KeepAt(_, _, _)
\* The elements of list at the indices of idx from i on, in their order
KeepAt(list, idx, i) ==
    IF i > Len(list) THEN <<>>
    ELSE (IF i \in idx THEN <<list[i]>> ELSE <<>>) \o KeepAt(list, idx, i + 1)

\* The record r carries one of the tags.
HasOneOf(r, tags) ==
    /\ Has(r, "tags")
    /\ \E t \in {tags[i] : i \in 1..Len(tags)} :
            t \in {Val(r, "tags")[j] : j \in 1..Len(Val(r, "tags"))}

\* The text q is, whatever the case of its letters, in the title or in the
\* content of r.
TextIn(r, q) ==
    \/ IsSubstring(toLowerCase(q), toLowerCase(Val(r, "title")))
    \/ IsSubstring(toLowerCase(q), toLowerCase(Val(r, "content")))

SearchDone == op.name = "search" /\ op.pc = "done"

\* C13 as stated: searchPrompts(query, tags) returns exactly the loaded
\* records that have one of the tags, or any when tags is empty, and that
\* have query, compared case-insensitively, as a substring of the title or
\* the content, or any when query is empty.
C13_SearchAsStated ==
    SearchDone =>
        LET loaded == getPrompts(sync, local).prompts
        IN  op.result.prompts =
                KeepAt(loaded,
                       {i \in 1..Len(loaded) :
                            /\ op.tags = <<>> \/ HasOneOf(loaded[i], op.tags)
                            /\ op.query = <<>> \/ TextIn(loaded[i], op.query)},
                       1)

\* C13, amended: the same with the query taken without its leading and
\* trailing white space, a query of white space only counting as empty.
C13_SearchTrimmed ==
    SearchDone =>
        LET loaded == getPrompts(sync, local).prompts
            q == trim(op.query)
        IN  /\ op.result.prompts =
                    KeepAt(loaded,
                           {i \in 1..Len(loaded) :
                                /\ op.tags = <<>> \/ HasOneOf(loaded[i], op.tags)
                                /\ q = <<>> \/ TextIn(loaded[i], q)},
                           1)
            /\ (op.query = <<>> /\ op.tags = <<>>) => op.result.prompts = loaded

C13_Witness ==
    /\ SearchDone
    /\ op.query = FromCodes(<<201>>)
    /\ op.tags = <<TagGeneral, TagWriting>>
    /\ Len(getPrompts(sync, local).prompts) = 2
    /\ Len(op.result.prompts) = 1
    /\ Get(op.result.prompts[1], "id") = Def(IdB)

\* The text of each error message, as a string.
MessageTexts ==
    ("QUOTA_BYTES quota exceeded" :>
        FromCodes(<<81, 85, 79, 84, 65, 95, 66, 89, 84, 69, 83, 32, 113, 117,
                    111, 116, 97, 32, 101, 120, 99, 101, 101, 100, 101, 100>>)) @@
    ("QUOTA_BYTES_PER_ITEM quota exceeded" :>
        FromCodes(<<81, 85, 79, 84, 65, 95, 66, 89, 84, 69, 83, 95, 80, 69, 82,
                    95, 73, 84, 69, 77, 32, 113, 117, 111, 116, 97, 32, 101, 120,
                    99, 101, 101, 100, 101, 100>>)) @@
    ("IO error" :>
        FromCodes(<<73, 79, 32, 101, 114, 114, 111, 114>>)) @@
    ("Storage quota exceeded. Please reduce prompt content size or clear some prompts." :>
        FromCodes(<<83, 116, 111, 114, 97, 103, 101, 32, 113, 117, 111, 116, 97,
                    32, 101, 120, 99, 101, 101, 100, 101, 100, 46, 32, 80, 108,
                    101, 97, 115, 101, 32, 114, 101, 100, 117, 99, 101, 32, 112,
                    114, 111, 109, 112, 116, 32, 99, 111, 110, 116, 101, 110,
                    116, 32, 115, 105, 122, 101, 32, 111, 114, 32, 99, 108, 101,
                    97, 114, 32, 115, 111, 109, 101, 32, 112, 114, 111, 109, 112,
                    116, 115, 46>>))

TextOf(err) == MessageTexts[err.message]

\* The words by which a message can name the first write, and the retry.
PrimaryWords == {FromCodes(<<115, 121, 110, 99>>), FromCodes(<<112, 114, 105, 109, 97, 114, 121>>), FromCodes(<<102, 105, 114, 115, 116>>)}

FallbackWords ==
    {FromCodes(<<108, 111, 99, 97, 108>>),
     FromCodes(<<102, 97, 108, 108, 98, 97, 99, 107>>),
     FromCodes(<<115, 101, 99, 111, 110, 100>>),
     FromCodes(<<114, 101, 116, 114, 121>>)}

\* The text names a write: by one of the words, or by quoting the error of
\* that write.
NamesWrite(text, words, write) ==
    \/ \E word \in words : includes(toLowerCase(text), word)
    \/ includes(text, TextOf(write.error))

\* Both writes of the save have failed, the first one on a quota.
BothWritesFailed ==
    /\ op.name \in {"save", "import"}
    /\ op.pc = "done"
    /\ op.st # "local"
    /\ Len(op.writes) = 2
    /\ MentionsQuota(op.writes[1].error)
    /\ op.writes[2].error # NoError

\* C14: when the first write fails on a quota, the storageType is not
\* 'local' and the retry on the local area fails too, savePrompts rejects
\* with a quota error whose message names both attempts.
C14_NamesBothAttempts ==
    BothWritesFailed =>
        /\ op.outcome = "rejected"
        /\ includes(toLowerCase(TextOf(op.error)), FromCodes(<<113, 117, 111, 116, 97>>))
        /\ NamesWrite(TextOf(op.error), PrimaryWords, op.writes[1])
        /\ NamesWrite(TextOf(op.error), FallbackWords, op.writes[2])

\* savePrompts, called directly or by the import, has settled.
SaveSettled == op.name \in {"save", "import"} /\ op.pc = "done" /\ op.writes # <<>>

\* C15: savePrompts retries on the local area exactly when the first write
\* failed on a quota and the storageType is not 'local'; any other failure
\* is rejected with the error of the backend and no second write; no save
\* makes more than two writes.
C15_FallbackOnlyOnQuota ==
    /\ op.name \in {"save", "import"} => Len(op.writes) <= 2
    /\ op.pc = "fallback" =>
            /\ Len(op.writes) = 1
            /\ op.st # "local"
            /\ op.writes[1].error.message \in QuotaMessages
    /\ SaveSettled =>
        LET first == op.writes[1]
            retried == op.st # "local" /\ first.error.message \in QuotaMessages
        IN  /\ first.area = (IF op.st = "local" THEN "local" ELSE "sync")
            /\ Len(op.writes) = 2 <=> retried
            /\ Len(op.writes) = 2 => op.writes[2].area = "local"
            /\ (first.error # NoError /\ ~retried) =>
                    /\ op.outcome = "rejected"
                    /\ op.error = first.error

C15_Witness ==
    /\ SaveSettled
    /\ op.st = "notion"
    /\ Len(op.writes) = 1
    /\ op.writes[1].error.message = "IO error"
    /\ op.outcome = "rejected"
    /\ op.error.message = "IO error"
    /\ Len(op.input) = 2

LoadDone == op.name = "load" /\ op.pc = "done"

\* What processPrompts makes of one area.
FromArea(a) ==
    [prompts |-> [i \in 1..Len(StoredPrompts(a)) |->
                    LoadOne(StoredPrompts(a)[i], StoredChunks(a))],
     storageType |-> IF Has(a, "storageType") THEN Val(a, "storageType")
                     ELSE "local"]

Collection(a) == [k \in CollectionKeys |-> Get(a, k)]

\* C17: whenever savePrompts, importPromptsFromJson or syncWithNotion
\* rejects, the records list, the chunk mapping, the tag index and the
\* storageType flag of both areas are what they were when the operation
\* started.
C17_FailureKeepsCollection ==
    (op.name \in {"save", "import", "sync"} /\ op.pc = "done"
        /\ op.outcome = "rejected") =>
        /\ Collection(sync) = Collection(op.before.sync)
        /\ Collection(local) = Collection(op.before.local)

\* The failure of a syncWithNotion that has rejected: the error its catch
\* block caught, or the error thrown before the try block.
SyncFailure == IF op.caught # NoError THEN op.caught ELSE op.error

\* syncWithNotion has rejected for want of a configuration, on the failure
\* of the exchange, or on the failure of the save.
SyncFailed ==
    /\ op.name = "sync"
    /\ op.pc = "done"
    /\ op.outcome = "rejected"
    /\ \/ SyncFailure \in {NotConfigured, RemoteError}
       \/ op.writes # <<>> /\ op.writes[Len(op.writes)].error # NoError

\* C18: whenever syncWithNotion fails in one of these ways, the stored
\* syncStatus has inProgress false and the message of the failure as its
\* error, and the caller gets the failure itself.
C18_FailureInStatus ==
    SyncFailed =>
        /\ getSyncStatus(sync).inProgress = Def(FALSE)
        /\ getSyncStatus(sync).error = Def(Some(SyncFailure.message))
        /\ op.error = SyncFailure

\* C19: when a configuration is stored and the exchange and the save both
\* succeed, syncWithNotion has stored exactly the list of the exchange
\* under storageType 'notion', returns that list, and leaves syncStatus with
\* inProgress false, error null and lastSynced the time of completion.
C19_SyncPersists ==
    (op.name = "sync" /\ op.pc = "done" /\ op.outcome = "resolved") =>
        /\ Get(WrittenArea, "storageType") = Def("notion")
        /\ Len(StoredPrompts(WrittenArea)) = Len(op.input)
        /\ Views(FromArea(WrittenArea).prompts) = Views(op.input)
        /\ op.result.prompts = op.input
        /\ getSyncStatus(sync) =
                [lastSynced |-> Def(Some(DateNow)), inProgress |-> Def(FALSE),
                 error |-> Def(Null)]

\* C20: for every chunked record, no chunk is empty or longer than 3000
\* code units, every chunk but the last has exactly 3000, and there are
\* ceiling(content length / 3000) of them.
C20_ChunkSizes ==
    (ck.pc \in {"chunked", "rebuilt"} /\ ck.metadata # Null) =>
        LET n == StrLen(Val(ck.prompt, "content"))
        IN  /\ \A i \in 1..Len(ck.chunks) :
                    /\ StrLen(ck.chunks[i]) >= 1
                    /\ StrLen(ck.chunks[i]) <= CHUNK_SIZE_CHARS
                    /\ i < Len(ck.chunks) => StrLen(ck.chunks[i]) = CHUNK_SIZE_CHARS
            /\ Len(ck.chunks) * CHUNK_SIZE_CHARS >= n
            /\ (Len(ck.chunks) - 1) * CHUNK_SIZE_CHARS < n \/ Len(ck.chunks) = 0

C20_Witness ==
    /\ ck.pc = "chunked"
    /\ ck.metadata # Null
    /\ Len(ck.chunks) = 2
    /\ StrLen(ck.chunks[1]) = CHUNK_SIZE_CHARS
    /\ StrLen(ck.chunks[2]) = CHUNK_SIZE_CHARS

\* The tags of the records of list, as a set.
TagsOf(list) ==
    UNION {{Val(list[i], "tags")[j] : j \in 1..Len(Val(list[i], "tags"))} :
            i \in {i \in 1..Len(list) : Has(list[i], "tags")}}

\* The area the last write of op went to, as it was when op was called.
WrittenBefore ==
    IF op.writes[Len(op.writes)].area = "local"
    THEN op.before.local ELSE op.before.sync

\* C21: the tag index a resolved savePrompts has written holds each tag of
\* the records passed to it once and nothing else, whatever index the
\* area held before.
C21_TagIndexIsUnion ==
    SaveResolved =>
        /\ Has(WrittenArea, "tags")
        /\ LET index == Val(WrittenArea, "tags")
           IN  /\ {index[j] : j \in 1..Len(index)} = TagsOf(op.input)
               /\ \A j, k \in 1..Len(index) : j # k => index[j] # index[k]

\* A save of two records, one without tags, over an index that held a tag
\* neither of them has.
C21_Witness ==
    /\ SaveResolved
    /\ Len(op.input) = 2
    /\ \E i \in 1..2 : ~Has(op.input[i], "tags")
    /\ Has(WrittenBefore, "tags")
    /\ \E j \in 1..Len(Val(WrittenBefore, "tags")) :
            Val(WrittenBefore, "tags")[j] = TagWriting
    /\ Val(WrittenArea, "tags") = <<TagAi>>

\* C22: once a savePrompts has resolved, under either storageType,
\* getAllTags returns the tag index that save computed, and the default
\* vocabulary when that index is empty.
C22_TagsAfterSave ==
    SaveResolved =>
        getAllTags(sync) = (IF Val(op.data, "tags") = <<>>
                            THEN DEFAULT_TAGS ELSE Val(op.data, "tags"))

\* C22 for the saves whose write went to the sync area.
C22_TagsAfterSyncWrite ==
    (SaveResolved /\ op.writes[Len(op.writes)].area = "sync") =>
        getAllTags(sync) = (IF Val(op.data, "tags") = <<>>
                            THEN DEFAULT_TAGS ELSE Val(op.data, "tags"))

\* The four collection keys as one savePrompts call writes them.
WrittenBy(c) ==
    [k \in CollectionKeys |->
        IF k = "prompts" THEN Def(StoredList(Val(c.data, "prompts")))
        ELSE Get(c.data, k)]

SavedCollections == {WrittenBy(c) : c \in SaveCalls}

NoCollection == Collection(EmptyArea)

\* The step changes a collection key of the area, from a to b.
Rewrites(a, b) == Collection(a) # Collection(b)

\* The step is the write of the savePrompts call in progress: the four
\* keys of the area become those of that call.
SaveWrites(b) ==
    /\ op.pc \in {"primary", "fallback"}
    /\ Collection(b) = WrittenBy(op)

\* C23 as stated: every write to a collection key of an area is the write
\* of one savePrompts call and sets the four keys to the values of that
\* call, so that in every state, saves overlapping or not, the four keys
\* of an area are those of one call.
C23_OneCallPerArea ==
    /\ [](/\ Collection(sync) \in SavedCollections \cup {NoCollection}
          /\ Collection(local) \in SavedCollections \cup {NoCollection})
    /\ [][/\ Rewrites(sync, sync') => SaveWrites(sync')
          /\ Rewrites(local, local') => SaveWrites(local')]_vars

\* The collection c with the default vocabulary as its tag index.
WithDefaultTags(c) == [c EXCEPT !.tags = Def(DEFAULT_TAGS)]

\* C23: every write to a collection key of an area is the write of one
\* savePrompts call, setting the four keys to the values of that call, or
\* the write of initializeDefaultTags, setting the tag index alone to the
\* default vocabulary; so that in every state, calls overlapping or not,
\* the records list, the storageType flag and the chunk mapping of an area
\* are those of one call, and its tag index is that call's or the default
\* vocabulary.
C23_OneCallOrDefaultTags ==
    /\ [](\A a \in {sync, local} :
            \E w \in SavedCollections \cup {NoCollection} :
                Collection(a) \in {w, WithDefaultTags(w)})
    /\ [][/\ Rewrites(sync, sync') =>
                \/ SaveWrites(sync')
                \/ /\ op.pc = "tagsSet"
                   /\ Collection(sync') = WithDefaultTags(Collection(sync))
          /\ Rewrites(local, local') => SaveWrites(local')]_vars

\* Two saves in flight together have both written the local area, one of
\* them in its quota fallback; the area holds the shell and the chunks of
\* the one that wrote last.
C23_Witness ==
    /\ op.name = "save" /\ other.name = "save"
    /\ op.pc = "done" /\ other.pc = "done"
    /\ op.outcome = "resolved" /\ other.outcome = "resolved"
    /\ op.input = <<BigB>> /\ op.st = "notion" /\ Len(op.writes) = 2
    /\ other.input = <<SmallA>> /\ other.st = "local"
    /\ Collection(local) = WrittenBy(op)

\* The steps of one syncWithNotion call, each with the steps it can follow.
SyncOrder ==
    [statusStart |-> {"idle", "done"},
     remote |-> {"statusStart"},
     primary |-> {"remote"},
     fallback |-> {"primary"},
     statusEnd |-> {"primary", "fallback"}]

\* The last write of the save of op succeeded.
SaveSucceeded == op.writes # <<>> /\ op.writes[Len(op.writes)].error = NoError

\* C24: syncWithNotion tests the configuration, writes inProgress true,
\* makes the exchange, saves the returned list and writes the final
\* status, in this order; the exchange is made only with a configuration
\* stored and inProgress written, and lastSynced changes only in the final
\* status update, after the save has succeeded.
C24_SyncOrder ==
    /\ [](op.name = "sync" =>
            /\ op.pc \in DOMAIN SyncOrder => getNotionConfig(sync) # Null
            /\ op.pc \in {"remote", "primary", "fallback", "statusEnd"} =>
                    getSyncStatus(sync).inProgress = Def(TRUE)
            /\ op.pc = "statusEnd" => SaveSucceeded)
    /\ [][/\ (op'.name = "sync" /\ op'.pc # op.pc
                    /\ op'.pc \in DOMAIN SyncOrder) =>
                op.pc \in SyncOrder[op'.pc]
          /\ getSyncStatus(sync').lastSynced # getSyncStatus(sync).lastSynced =>
                /\ op.name = "sync"
                /\ op.pc = "statusEnd"
                /\ SaveSucceeded
                /\ op'.pc = "done" /\ op'.outcome = "resolved"]_vars

\* The second sync of two has gone through every step, its save through
\* the local fallback, and has replaced the lastSynced of the first.
C24_Witness ==
    /\ op.name = "sync" /\ op.pc = "done" /\ op.outcome = "resolved"
    /\ Len(op.writes) = 2
    /\ getSyncStatus(op.before.sync).lastSynced = Def(Some(3001))
    /\ getSyncStatus(sync).lastSynced = Def(Some(3002))

\* The syncWithNotion call that has settled got past its first status
\* update: it resolved, or failed in the exchange, the save or after it.
WroteInProgress ==
    /\ op.name = "sync"
    /\ op.pc = "done"
    /\ \/ op.outcome = "resolved"
       \/ op.caught = RemoteError
       \/ op.writes # <<>>

\* C25: when a syncWithNotion call that has written inProgress true
\* settles, the stored syncStatus has inProgress false, also when a write
\* to a backend failed on the way.
C25_InProgressCleared ==
    WroteInProgress => getSyncStatus(sync).inProgress = Def(FALSE)

\* C25 for the status updates that are written: each update after the
\* save or in the catch block that changes the sync area leaves inProgress
\* false.
C25_ClearedWhenWritten ==
    [][(op.pc \in {"statusEnd", "statusCatch"} /\ sync' # sync) =>
            getSyncStatus(sync').inProgress = Def(FALSE)]_vars

\* A savePrompts call, direct or made by the import, has resolved on its
\* first write.
FirstWriteDone ==
    /\ op.name \in {"save", "import"}
    /\ op.pc = "done"
    /\ Len(op.writes) = 1
    /\ op.writes[1].error = NoError

\* C26: a savePrompts call that succeeds on its first write has written
\* the local area when its storageType is 'local' and the sync area
\* otherwise, and the other area is as it was when the call was made.
C26_OtherAreaKept ==
    FirstWriteDone =>
        IF op.st = "local"
        THEN /\ op.writes[1].area = "local"
             /\ Collection(local) = WrittenBy(op)
             /\ sync = op.before.sync
        ELSE /\ op.writes[1].area = "sync"
             /\ Collection(sync) = WrittenBy(op)
             /\ local = op.before.local

\* A save to the sync area while the local area holds another list.
C26_Witness ==
    /\ FirstWriteDone
    /\ op.st = "notion"
    /\ op.input = <<BigB>>
    /\ StoredPrompts(local) # <<>>
    /\ Collection(local) # WrittenBy(op)

\* C27: once savePrompts(records, storageType) has resolved, getPrompts()
\* returns that storageType, whatever the areas held before; with no
\* storageType stored in either area it returns 'local'.
C27_TypeAfterSave ==
    /\ SaveResolved => getPrompts(sync, local).storageType = op.st
    /\ (~Has(sync, "storageType") /\ ~Has(local, "storageType")) =>
            getPrompts(sync, local).storageType = "local"

\* C27 for the saves that wrote the area getPrompts reads.
C27_TypeOfAreaRead ==
    (SaveResolved
        /\ (op.writes[Len(op.writes)].area = "local") = ReadsLocal(sync)) =>
        getPrompts(sync, local).storageType = op.st

\* The fields each updateSyncStatus call of syncWithNotion is given.
StatusGiven ==
    [statusStart |-> {"inProgress", "error"},
     statusEnd |-> {"lastSynced", "inProgress"},
     statusCatch |-> {"inProgress", "error"}]

\* C28: a syncWithNotion call that has rejected leaves the stored
\* lastSynced as it was when the call was made, and every step changes
\* only those fields of the stored syncStatus that its updateSyncStatus
\* call is given.
C28_StatusFrame ==
    /\ []((op.name = "sync" /\ op.pc = "done" /\ op.outcome = "rejected") =>
            getSyncStatus(sync).lastSynced =
                getSyncStatus(op.before.sync).lastSynced)
    /\ [][\A f \in {"lastSynced", "inProgress", "error"} :
            getSyncStatus(sync')[f] # getSyncStatus(sync)[f] =>
                /\ op.pc \in DOMAIN StatusGiven
                /\ f \in StatusGiven[op.pc]]_vars

\* A sync that failed after one that succeeded: the catch block has stored
\* its error, and lastSynced is still the time of the first.
C28_Witness ==
    /\ op.name = "sync" /\ op.pc = "done" /\ op.outcome = "rejected"
    /\ getSyncStatus(op.before.sync).lastSynced = Def(Some(3001))
    /\ getSyncStatus(sync).lastSynced = Def(Some(3001))
    /\ getSyncStatus(sync).error # Def(Null)

\* The record is over the limit that savePrompts tests.
Oversized(r) == ExceedsLimit(SizeKB(BlobSize(r)))

\* The records of list that are stored whole, then those that are chunked,
\* each group in the order of list.
WholeFirst(list) ==
    SelectSeq(list, LAMBDA r : ~Oversized(r))
        \o SelectSeq(list, LAMBDA r : Oversized(r))

InOrder(list) == [i \in 1..Len(list) |-> View(list[i])]

Ids(list) == [i \in 1..Len(list) |-> Get(list[i], "id")]

\* C29: a resolved savePrompts has stored the whole records of its input
\* in input order and then the shells of the chunked ones in input order,
\* getPrompts returns one record for each stored entry in stored order,
\* and so returns the saved records with the whole ones first: in the
\* order of the input exactly when no whole record follows a chunked one.
C29_WholeFirst ==
    SaveResolved =>
        /\ Ids(StoredPrompts(WrittenArea)) =
                Ids(SelectSeq(WholeFirst(op.input),
                              LAMBDA r : ~Oversized(r)
                                         \/ chunkPrompt(r).chunks # <<>>))
        /\ Ids(FromArea(WrittenArea).prompts) = Ids(StoredPrompts(WrittenArea))
        /\ InOrder(getPrompts(sync, local).prompts) = InOrder(WholeFirst(op.input))

\* C29 for the area the save wrote and the records that have content.
C29_WholeFirstInArea ==
    (SaveResolved
        /\ \A i \in 1..Len(op.input) :
                /\ ~Has(op.input[i], "chunkCount")
                /\ Val(op.input[i], "content") # <<>>) =>
        /\ Ids(StoredPrompts(WrittenArea)) = Ids(WholeFirst(op.input))
        /\ InOrder(FromArea(WrittenArea).prompts) = InOrder(WholeFirst(op.input))

====
